---------------------------- MODULE Spec2Model ----------------------------
(***************************************************************************)
(* The file-open path of the weenix VFS layer: get_empty_fd and do_open of *)
(* kernel/fs/open.c, as a state machine.  One process (curproc) owns the   *)
(* descriptor table p_files; its threads call do_open.  Every statement of *)
(* do_open that touches shared state is one step; the kernel is            *)
(* non-preemptive, so another thread runs only while the running one is    *)
(* blocked inside a collaborator (fget, open_namev) or is outside do_open. *)
(***************************************************************************)
EXTENDS Integers, FiniteSets

(* ------------------------------ bounds -------------------------------- *)
\* Capacity of the descriptor table (the kernel's NFILES, scaled down).
NFILES == 3
\* Number of do_open calls made one after the other in one behaviour.
MaxCalls == 2

(* --------------------- constants of the kernel headers ---------------- *)
O_RDONLY == 0
O_WRONLY == 1
O_RDWR == 2
O_CREAT == 256
O_APPEND == 1024
FMODE_READ == 1
FMODE_WRITE == 2
FMODE_APPEND == 4
S_IFDIR == 512
S_IFREG == 2048
ENOENT == 2
ENXIO == 6
ENOMEM == 12
ENOTDIR == 20
EISDIR == 21
EINVAL == 22
EMFILE == 24
ENAMETOOLONG == 36
NULL == 0
\* Value of a field of a file_t that nothing has stored to yet.
UNSET == -1

(* ------------------------------ universe ------------------------------ *)
Threads == {"t1", "t2"}
Fds == 0 .. (NFILES - 1)
\* file_t objects of the slab: one per slot plus one per thread in flight.
FileIds == 1 .. (NFILES + Cardinality(Threads))
\* vnodes: 1 a regular file, 2 a directory, 3 the file "new" once created.
VnodeIds == 1 .. 3
Paths == {"reg", "dir", "new", "bad"}
FlagBits == {O_WRONLY, O_RDWR, O_CREAT, O_APPEND}

RECURSIVE SumSet(_)
SumSet(S) == IF S = {} THEN 0
             ELSE LET x == CHOOSE y \in S : TRUE IN x + SumSet(S \ {x})

\* Every oflags value built from the bits do_open and the resolver act on
\* (O_TRUNC is decoded at line 84 into a local that nothing reads).
AllFlags == {SumSet(B) : B \in SUBSET FlagBits}
\* The inputs of the calls that run concurrently.
ConcFlags == {O_RDONLY, O_WRONLY + O_APPEND}
ConcPaths == {"reg", "dir", "bad"}

\* C's a & b on non-negative ints.
RECURSIVE BitAnd(_, _)
BitAnd(a, b) == IF a = 0 \/ b = 0 THEN 0
                ELSE (a % 2) * (b % 2) + 2 * BitAnd(a \div 2, b \div 2)

\* C's a | b; -1 has every bit set.
RECURSIVE BitOr(_, _)
BitOr(a, b) == IF a = -1 \/ b = -1 THEN -1
               ELSE IF a = 0 THEN b
               ELSE IF b = 0 THEN a
               ELSE (IF a % 2 = 1 \/ b % 2 = 1 THEN 1 ELSE 0)
                    + 2 * BitOr(a \div 2, b \div 2)

vn_mode(v) == IF v = 2 THEN S_IFDIR ELSE S_IFREG

(* ------------------------------- state -------------------------------- *)
VARIABLES
    p_files,      \* curproc->p_files: Fds -> FileIds or NULL
    files,        \* the file_t objects: f_refcount, f_mode, f_vnode, f_pos
    vn_refcount,  \* reference count of each vnode
    namespace,    \* what each path names: a vnode, or NULL when absent
    pc,           \* each thread's position in do_open
    filename, oflags,                  \* do_open's arguments
    fd, file, mode, res, res_vnode,    \* do_open's locals
    retval,       \* what do_open returned
    pre,          \* table and reference counts when the call began
    cnt,          \* collaborator invocations of the call in flight
    calls,        \* do_open calls each thread has made
    hist          \* record of the behaviour so far: the state before the first
                  \* call, the successful opens, and whether every completed
                  \* call named an absent path without O_CREAT

shared == <<p_files, files, vn_refcount, namespace>>
locals == <<filename, oflags, fd, file, mode, res, res_vnode, retval>>
vars == <<p_files, files, vn_refcount, namespace, pc, filename, oflags,
          fd, file, mode, res, res_vnode, retval, pre, cnt, calls, hist>>

FreshFile == [f_refcount |-> 0, f_mode |-> UNSET, f_vnode |-> NULL, f_pos |-> UNSET]
\* A file_t an earlier open left in the table: read-only on the regular file.
OpenedFile == [f_refcount |-> 1, f_mode |-> FMODE_READ, f_vnode |-> 1, f_pos |-> 0]
ZeroCnt == [fget |-> 0, fput |-> 0, vput |-> 0, namev |-> 0]

RefCounts(fs) == [f \in FileIds |-> fs[f].f_refcount]
\* No call in flight: nothing recorded.
NoSnapshot == [p_files |-> <<>>, frefs |-> <<>>, vrefs |-> <<>>, ns |-> <<>>]
Snapshot == [p_files |-> p_files, frefs |-> RefCounts(files), vrefs |-> vn_refcount,
             ns |-> namespace]

\* pcs at which the running thread is blocked in a collaborator or outside
\* do_open, so that another thread may run.
Preemptible == {"idle", "fget", "namev", "ret"}

(* ----------------------------- get_empty_fd --------------------------- *)
\* The for loop of get_empty_fd from index i on.
RECURSIVE ScanFrom(_, _)
ScanFrom(tbl, i) == IF i < NFILES
                    THEN IF tbl[i] = NULL THEN i ELSE ScanFrom(tbl, i + 1)
                    ELSE -EMFILE

\* Faulty variant: the loop starts at index 1.
get_empty_fd_from1(tbl) == ScanFrom(tbl, 1)

\* Faulty variant: a full table yields index 0 instead of -EMFILE.
get_empty_fd_wrap(tbl) == IF ScanFrom(tbl, 0) = -EMFILE THEN 0 ELSE ScanFrom(tbl, 0)

get_empty_fd(tbl) == ScanFrom(tbl, 0)

(* ---------------------------- collaborators --------------------------- *)
\* vput: drop one reference of vnode v.
vput(vr, v) == [vr EXCEPT ![v] = @ - 1]

\* fput: drop one reference of file f; at zero the object is destroyed,
\* which releases the vnode it owns.  Returns the new <<files, vn_refcount>>.
fput(fs, vr, f) ==
    IF fs[f].f_refcount - 1 = 0
    THEN <<[fs EXCEPT ![f] = FreshFile],
           IF fs[f].f_vnode # NULL THEN vput(vr, fs[f].f_vnode) ELSE vr>>
    ELSE <<[fs EXCEPT ![f].f_refcount = @ - 1], vr>>

\* fget(-1): a fresh file_t holding one reference, or NULL when out of memory.
FreeFiles(fs) == {f \in FileIds : fs[f].f_refcount = 0}
fget(fs) == {NULL} \cup
            (IF FreeFiles(fs) = {} THEN {}
             ELSE {CHOOSE f \in FreeFiles(fs) : \A g \in FreeFiles(fs) : f <= g})

\* open_namev: the outcomes <<status, vnode, creates>> of resolving path with
\* flags.  A vnode handed back, with or without a failure, carries a reference.
ResolverErrors == {-ENAMETOOLONG, -ENOTDIR, -ENXIO}
open_namev(path, flags, ns) ==
    IF path = "bad"
    THEN {[res |-> e, vnode |-> v, creates |-> FALSE] :
              e \in ResolverErrors, v \in {NULL, 1}}
    ELSE IF ns[path] # NULL
    THEN {[res |-> 0, vnode |-> ns[path], creates |-> FALSE]}
    ELSE IF BitAnd(flags, O_CREAT) # 0
    THEN {[res |-> 0, vnode |-> 3, creates |-> TRUE]}
    ELSE {[res |-> -ENOENT, vnode |-> NULL, creates |-> FALSE]}

(* ------------------------------- do_open ------------------------------ *)
wr(t) == BitAnd(oflags[t], O_WRONLY)
rdwr(t) == BitAnd(oflags[t], O_RDWR)
rd(t) == IF wr(t) = 0 /\ rdwr(t) = 0 THEN 1 ELSE 0
append(t) == BitAnd(oflags[t], O_APPEND)

\* Faulty variant: O_APPEND is not carried into the mode.
DerivedMode_noappend(w, r, rw, app) ==
    IF r # 0 THEN FMODE_READ
    ELSE IF w # 0 THEN FMODE_WRITE
    ELSE BitOr(FMODE_READ, FMODE_WRITE)

\* Faulty variant: the read-only intent (no access bit set) is not handled.
DerivedMode_nord(w, r, rw, app) ==
    IF w # 0 \/ rw # 0
    THEN LET base == IF w # 0 THEN FMODE_WRITE ELSE BitOr(FMODE_READ, FMODE_WRITE)
         IN IF app # 0 THEN BitOr(base, FMODE_APPEND) ELSE base
    ELSE -1

\* Step 4: f_mode from the decoded flags; -1 when no branch assigns it.
DerivedMode(w, r, rw, app) ==
    IF w # 0 \/ r # 0 \/ rw # 0
    THEN LET base == IF r # 0 THEN FMODE_READ
                     ELSE IF w # 0 THEN FMODE_WRITE
                     ELSE IF rw # 0 THEN BitOr(FMODE_READ, FMODE_WRITE)
                     ELSE -1
         IN IF app # 0 THEN BitOr(base, FMODE_APPEND) ELSE base
    ELSE -1

\* Faulty variant: only a write-only mode conflicts with a directory.
IsDirConflict_wronly(v, m) == BitAnd(vn_mode(v), S_IFDIR) # 0 /\ m = FMODE_WRITE

\* The directory test of line 149.
IsDirConflict(v, m) == BitAnd(vn_mode(v), S_IFDIR) # 0 /\ m # FMODE_READ

Goto(t, l) == pc' = [pc EXCEPT ![t] = l]
Exit(t, v) == /\ retval' = [retval EXCEPT ![t] = v]
              /\ pc' = [pc EXCEPT ![t] = "ret"]

Init ==
    /\ \E occ \in SUBSET Fds :
          /\ p_files = [i \in Fds |-> IF i \in occ THEN i + 1 ELSE NULL]
          /\ files = [f \in FileIds |-> IF (f - 1) \in occ THEN OpenedFile ELSE FreshFile]
          /\ vn_refcount = [v \in VnodeIds |-> IF v = 1 THEN Cardinality(occ) ELSE 0]
    /\ namespace = [p \in Paths |-> CASE p = "reg" -> 1 [] p = "dir" -> 2 [] OTHER -> NULL]
    /\ pc = [t \in Threads |-> "idle"]
    /\ filename = [t \in Threads |-> "reg"]
    /\ oflags = [t \in Threads |-> 0]
    /\ fd = [t \in Threads |-> 0]
    /\ file = [t \in Threads |-> NULL]
    /\ mode = [t \in Threads |-> UNSET]
    /\ res = [t \in Threads |-> 0]
    /\ res_vnode = [t \in Threads |-> NULL]
    /\ retval = [t \in Threads |-> 0]
    /\ pre = [t \in Threads |-> NoSnapshot]
    /\ cnt = [t \in Threads |-> ZeroCnt]
    /\ calls = [t \in Threads |-> 0]
    /\ hist = [init |-> Snapshot, nsucc |-> 0, fds |-> {}, onlyAbsent |-> TRUE]

\* A thread enters do_open(path, flags).
Call(t, path, flags) ==
    /\ pc[t] = "idle"
    /\ calls' = [calls EXCEPT ![t] = @ + 1]
    /\ filename' = [filename EXCEPT ![t] = path]
    /\ oflags' = [oflags EXCEPT ![t] = flags]
    /\ pre' = [pre EXCEPT ![t] = Snapshot]
    /\ cnt' = [cnt EXCEPT ![t] = ZeroCnt]
    /\ Goto(t, "validate")
    /\ UNCHANGED <<shared, fd, file, mode, res, res_vnode, retval, hist>>

\* Faulty variant: only the exact value O_WRONLY|O_RDWR is rejected.
Validate_exact(t) ==
    /\ pc[t] = "validate"
    /\ IF oflags[t] = O_WRONLY + O_RDWR
       THEN Exit(t, -EINVAL)
       ELSE Goto(t, "scan") /\ UNCHANGED retval
    /\ UNCHANGED <<shared, filename, oflags, fd, file, mode, res, res_vnode, pre, cnt, calls, hist>>

\* Lines 77-89: an oflags with both O_WRONLY and O_RDWR is invalid.
Validate(t) ==
    /\ pc[t] = "validate"
    /\ IF wr(t) # 0 /\ rdwr(t) # 0
       THEN Exit(t, -EINVAL)
       ELSE Goto(t, "scan") /\ UNCHANGED retval
    /\ UNCHANGED <<shared, filename, oflags, fd, file, mode, res, res_vnode, pre, cnt, calls, hist>>

\* Line 92: fd = get_empty_fd(curproc).
Scan(t) ==
    /\ pc[t] = "scan"
    /\ fd' = [fd EXCEPT ![t] = get_empty_fd(p_files)]
    /\ Goto(t, "scan_chk")
    /\ UNCHANGED <<shared, filename, oflags, file, mode, res, res_vnode, retval, pre, cnt, calls, hist>>

\* Faulty variant: the -EMFILE result of the scan does not end the call.
ScanChk_nofail(t) ==
    /\ pc[t] = "scan_chk"
    /\ Goto(t, "fget")
    /\ UNCHANGED <<shared, locals, pre, cnt, calls, hist>>

\* Lines 93-95.
ScanChk(t) ==
    /\ pc[t] = "scan_chk"
    /\ IF fd[t] = -EMFILE
       THEN Exit(t, -EMFILE)
       ELSE Goto(t, "fget") /\ UNCHANGED retval
    /\ UNCHANGED <<shared, filename, oflags, fd, file, mode, res, res_vnode, pre, cnt, calls, hist>>

\* Line 98: file = fget(-1); the allocator may block before it answers.
Fget(t) ==
    /\ pc[t] = "fget"
    /\ \E f \in fget(files) :
          /\ file' = [file EXCEPT ![t] = f]
          /\ files' = IF f = NULL THEN files
                      ELSE [files EXCEPT ![f] = [FreshFile EXCEPT !.f_refcount = 1]]
    /\ cnt' = [cnt EXCEPT ![t].fget = @ + 1]
    /\ Goto(t, "fget_chk")
    /\ UNCHANGED <<p_files, vn_refcount, namespace, filename, oflags, fd, mode, res,
                   res_vnode, retval, pre, calls, hist>>

\* Faulty variant: a NULL from fget halts the kernel instead of returning.
FgetChk_halt(t) ==
    /\ pc[t] = "fget_chk"
    /\ IF file[t] = NULL
       THEN Goto(t, "halted")
       ELSE Goto(t, "publish")
    /\ UNCHANGED <<shared, filename, oflags, fd, file, mode, res, res_vnode, retval, pre, cnt, calls, hist>>

\* Lines 99-102.
FgetChk(t) ==
    /\ pc[t] = "fget_chk"
    /\ IF file[t] = NULL
       THEN Exit(t, -ENOMEM)
       ELSE Goto(t, "publish") /\ UNCHANGED retval
    /\ UNCHANGED <<shared, filename, oflags, fd, file, mode, res, res_vnode, pre, cnt, calls, hist>>

\* Faulty variant: the file is not stored into the table.
Publish_skip(t) ==
    /\ pc[t] = "publish"
    /\ Goto(t, "derive")
    /\ UNCHANGED <<shared, locals, pre, cnt, calls, hist>>

\* Line 104: curproc->p_files[fd] = file.
Publish(t) ==
    /\ pc[t] = "publish"
    /\ p_files' = [p_files EXCEPT ![fd[t]] = file[t]]
    /\ Goto(t, "derive")
    /\ UNCHANGED <<files, vn_refcount, namespace, locals, pre, cnt, calls, hist>>

\* Lines 110-126.
DeriveMode(t) ==
    /\ pc[t] = "derive"
    /\ mode' = [mode EXCEPT ![t] = DerivedMode(wr(t), rd(t), rdwr(t), append(t))]
    /\ Goto(t, "mode_chk")
    /\ UNCHANGED <<shared, filename, oflags, fd, file, res, res_vnode, retval, pre, cnt, calls, hist>>

\* Lines 128-135: unwind when no mode was derived, else file->f_mode = mode.
ModeChk(t) ==
    /\ pc[t] = "mode_chk"
    /\ IF mode[t] = -1
       THEN LET r == fput(files, vn_refcount, file[t]) IN
            /\ p_files' = [p_files EXCEPT ![fd[t]] = NULL]
            /\ files' = r[1]
            /\ vn_refcount' = r[2]
            /\ cnt' = [cnt EXCEPT ![t].fput = @ + 1]
            /\ Exit(t, -EINVAL)
       ELSE /\ files' = [files EXCEPT ![file[t]].f_mode = mode[t]]
            /\ Goto(t, "namev")
            /\ UNCHANGED <<p_files, vn_refcount, cnt, retval>>
    /\ UNCHANGED <<namespace, filename, oflags, fd, file, mode, res, res_vnode, pre, calls, hist>>

\* Faulty variant: the resolver is handed the derived mode, not oflags.
OpenNamev_mode(t) ==
    /\ pc[t] = "namev"
    /\ \E o \in open_namev(filename[t], mode[t], namespace) :
          /\ res' = [res EXCEPT ![t] = o.res]
          /\ res_vnode' = [res_vnode EXCEPT ![t] = o.vnode]
          /\ vn_refcount' = IF o.vnode # NULL
                            THEN [vn_refcount EXCEPT ![o.vnode] = @ + 1]
                            ELSE vn_refcount
          /\ namespace' = IF o.creates
                          THEN [namespace EXCEPT ![filename[t]] = o.vnode]
                          ELSE namespace
    /\ cnt' = [cnt EXCEPT ![t].namev = @ + 1]
    /\ Goto(t, "namev_chk")
    /\ UNCHANGED <<p_files, files, filename, oflags, fd, file, mode, retval, pre, calls, hist>>

\* Lines 138-140: res = open_namev(filename, oflags, &res_vnode, base); the
\* resolver may block before it answers.
OpenNamev(t) ==
    /\ pc[t] = "namev"
    /\ \E o \in open_namev(filename[t], oflags[t], namespace) :
          /\ res' = [res EXCEPT ![t] = o.res]
          /\ res_vnode' = [res_vnode EXCEPT ![t] = o.vnode]
          /\ vn_refcount' = IF o.vnode # NULL
                            THEN [vn_refcount EXCEPT ![o.vnode] = @ + 1]
                            ELSE vn_refcount
          /\ namespace' = IF o.creates
                          THEN [namespace EXCEPT ![filename[t]] = o.vnode]
                          ELSE namespace
    /\ cnt' = [cnt EXCEPT ![t].namev = @ + 1]
    /\ Goto(t, "namev_chk")
    /\ UNCHANGED <<p_files, files, filename, oflags, fd, file, mode, retval, pre, calls, hist>>

\* Line 141: if (res < 0).
NamevChk(t) ==
    /\ pc[t] = "namev_chk"
    /\ IF res[t] < 0 THEN Goto(t, "fail_null") ELSE Goto(t, "dir_chk")
    /\ UNCHANGED <<shared, locals, pre, cnt, calls, hist>>

\* Faulty variant: the slot is left pointing at the file.
FailNull_keep(t) ==
    /\ pc[t] = "fail_null"
    /\ Goto(t, "fail_vput")
    /\ UNCHANGED <<shared, locals, pre, cnt, calls, hist>>

\* Line 142: curproc->p_files[fd] = NULL.
FailNull(t) ==
    /\ pc[t] = "fail_null"
    /\ p_files' = [p_files EXCEPT ![fd[t]] = NULL]
    /\ Goto(t, "fail_vput")
    /\ UNCHANGED <<files, vn_refcount, namespace, locals, pre, cnt, calls, hist>>

\* Faulty variant: a vnode handed back with a failure is not released.
FailVput_leak(t) ==
    /\ pc[t] = "fail_vput"
    /\ Goto(t, "fail_fput")
    /\ UNCHANGED <<shared, locals, pre, cnt, calls, hist>>

\* Lines 143-144: if (res_vnode) vput(res_vnode).
FailVput(t) ==
    /\ pc[t] = "fail_vput"
    /\ IF res_vnode[t] # NULL
       THEN /\ vn_refcount' = vput(vn_refcount, res_vnode[t])
            /\ cnt' = [cnt EXCEPT ![t].vput = @ + 1]
       ELSE UNCHANGED <<vn_refcount, cnt>>
    /\ Goto(t, "fail_fput")
    /\ UNCHANGED <<p_files, files, namespace, locals, pre, calls, hist>>

\* Faulty variant: every resolver failure is reported as -ENOENT.
FailFput_remap(t) ==
    /\ pc[t] = "fail_fput"
    /\ LET r == fput(files, vn_refcount, file[t]) IN
          files' = r[1] /\ vn_refcount' = r[2]
    /\ cnt' = [cnt EXCEPT ![t].fput = @ + 1]
    /\ Exit(t, -ENOENT)
    /\ UNCHANGED <<p_files, namespace, filename, oflags, fd, file, mode, res, res_vnode,
                   pre, calls, hist>>

\* Faulty variant: the file object is not released on a resolver failure.
FailFput_leak(t) ==
    /\ pc[t] = "fail_fput"
    /\ Exit(t, res[t])
    /\ UNCHANGED <<shared, filename, oflags, fd, file, mode, res, res_vnode,
                   pre, cnt, calls, hist>>

\* Lines 145-146: fput(file); return res.
FailFput(t) ==
    /\ pc[t] = "fail_fput"
    /\ LET r == fput(files, vn_refcount, file[t]) IN
          files' = r[1] /\ vn_refcount' = r[2]
    /\ cnt' = [cnt EXCEPT ![t].fput = @ + 1]
    /\ Exit(t, res[t])
    /\ UNCHANGED <<p_files, namespace, filename, oflags, fd, file, mode, res, res_vnode,
                   pre, calls, hist>>

\* Line 149: a directory may be opened with mode FMODE_READ only.
DirChk(t) ==
    /\ pc[t] = "dir_chk"
    /\ IF IsDirConflict(res_vnode[t], mode[t])
       THEN Goto(t, "isdir_null")
       ELSE Goto(t, "fill")
    /\ UNCHANGED <<shared, locals, pre, cnt, calls, hist>>

\* Faulty variant: the slot is not cleared before the references are dropped.
IsdirNull_keep(t) ==
    /\ pc[t] = "isdir_null"
    /\ Goto(t, "isdir_vput")
    /\ UNCHANGED <<shared, locals, pre, cnt, calls, hist>>

\* Line 150: curproc->p_files[fd] = NULL.
IsdirNull(t) ==
    /\ pc[t] = "isdir_null"
    /\ p_files' = [p_files EXCEPT ![fd[t]] = NULL]
    /\ Goto(t, "isdir_vput")
    /\ UNCHANGED <<files, vn_refcount, namespace, locals, pre, cnt, calls, hist>>

\* Line 151: vput(res_vnode).
IsdirVput(t) ==
    /\ pc[t] = "isdir_vput"
    /\ vn_refcount' = vput(vn_refcount, res_vnode[t])
    /\ cnt' = [cnt EXCEPT ![t].vput = @ + 1]
    /\ Goto(t, "isdir_fput")
    /\ UNCHANGED <<p_files, files, namespace, locals, pre, calls, hist>>

\* Lines 152-153: fput(file); return -EISDIR.
IsdirFput(t) ==
    /\ pc[t] = "isdir_fput"
    /\ LET r == fput(files, vn_refcount, file[t]) IN
          files' = r[1] /\ vn_refcount' = r[2]
    /\ cnt' = [cnt EXCEPT ![t].fput = @ + 1]
    /\ Exit(t, -EISDIR)
    /\ UNCHANGED <<p_files, namespace, filename, oflags, fd, file, mode, res, res_vnode,
                   pre, calls, hist>>

\* Faulty variant: success is reported as 0 instead of the descriptor.
Fill_zero(t) ==
    /\ pc[t] = "fill"
    /\ files' = [files EXCEPT ![file[t]].f_vnode = res_vnode[t], ![file[t]].f_pos = 0]
    /\ Exit(t, 0)
    /\ hist' = [hist EXCEPT !.nsucc = @ + 1, !.fds = @ \cup {fd[t]}]
    /\ UNCHANGED <<p_files, vn_refcount, namespace, filename, oflags, fd, file, mode,
                   res, res_vnode, pre, cnt, calls>>

\* Lines 157-161: file->f_vnode = res_vnode; file->f_pos = 0; return fd.
Fill(t) ==
    /\ pc[t] = "fill"
    /\ files' = [files EXCEPT ![file[t]].f_vnode = res_vnode[t], ![file[t]].f_pos = 0]
    /\ Exit(t, fd[t])
    /\ hist' = [hist EXCEPT !.nsucc = @ + 1, !.fds = @ \cup {fd[t]}]
    /\ UNCHANGED <<p_files, vn_refcount, namespace, filename, oflags, fd, file, mode,
                   res, res_vnode, pre, cnt, calls>>

\* Thread t's call names a path that was absent when the call began, and
\* does not ask for its creation.
AbsentNoCreat(t) ==
    /\ filename[t] = "new"
    /\ pre[t].ns["new"] = NULL
    /\ BitAnd(oflags[t], O_CREAT) = 0

\* The caller takes do_open's result; the frame of the call is gone.
Return(t) ==
    /\ pc[t] = "ret"
    /\ Goto(t, "idle")
    /\ filename' = [filename EXCEPT ![t] = "reg"]
    /\ oflags' = [oflags EXCEPT ![t] = 0]
    /\ fd' = [fd EXCEPT ![t] = 0]
    /\ file' = [file EXCEPT ![t] = NULL]
    /\ mode' = [mode EXCEPT ![t] = UNSET]
    /\ res' = [res EXCEPT ![t] = 0]
    /\ res_vnode' = [res_vnode EXCEPT ![t] = NULL]
    /\ retval' = [retval EXCEPT ![t] = 0]
    /\ cnt' = [cnt EXCEPT ![t] = ZeroCnt]
    /\ pre' = [pre EXCEPT ![t] = NoSnapshot]
    /\ hist' = [hist EXCEPT !.onlyAbsent = @ /\ AbsentNoCreat(t)]
    /\ UNCHANGED <<shared, calls>>

\* One call at a time: thread t runs only while every other thread is
\* outside do_open.
Alone(t) == \A u \in Threads \ {t} : pc[u] = "idle"

\* The kernel switches threads only where the running one blocks or has left
\* do_open: thread t runs only while every other thread is at such a point.
Scheduled(t) == \A u \in Threads \ {t} : pc[u] \in Preemptible

\* The thread that makes the calls when they are made one at a time.
SeqThreads == {"t1"}

Next ==
    \E t \in SeqThreads :
        \/ Alone(t) /\ calls[t] < MaxCalls
                    /\ \E p \in Paths, f \in AllFlags : Call(t, p, f)
        \/ Alone(t) /\ Validate(t)
        \/ Alone(t) /\ Scan(t)
        \/ Alone(t) /\ ScanChk(t)
        \/ Alone(t) /\ Fget(t)
        \/ Alone(t) /\ FgetChk(t)
        \/ Alone(t) /\ Publish(t)
        \/ Alone(t) /\ DeriveMode(t)
        \/ Alone(t) /\ ModeChk(t)
        \/ Alone(t) /\ OpenNamev(t)
        \/ Alone(t) /\ NamevChk(t)
        \/ Alone(t) /\ FailNull(t)
        \/ Alone(t) /\ FailVput(t)
        \/ Alone(t) /\ FailFput(t)
        \/ Alone(t) /\ DirChk(t)
        \/ Alone(t) /\ IsdirNull(t)
        \/ Alone(t) /\ IsdirVput(t)
        \/ Alone(t) /\ IsdirFput(t)
        \/ Alone(t) /\ Fill(t)
        \/ Alone(t) /\ Return(t)

Spec == Init /\ [][Next]_vars

\* One statement of the do_open call thread t is in, the returns of fget and
\* open_namev included.
Progress(t) ==
    \/ Validate(t) \/ Scan(t) \/ ScanChk(t) \/ Fget(t) \/ FgetChk(t)
    \/ Publish(t) \/ DeriveMode(t) \/ ModeChk(t) \/ OpenNamev(t)
    \/ NamevChk(t) \/ FailNull(t) \/ FailVput(t) \/ FailFput(t)
    \/ DirChk(t) \/ IsdirNull(t) \/ IsdirVput(t) \/ IsdirFput(t) \/ Fill(t)

\* The calls made one at a time, where the thread inside do_open keeps being
\* run and fget and open_namev return whenever they are called.
SpecLive == Init /\ [][Next]_vars /\ \A t \in SeqThreads : WF_vars(Alone(t) /\ Progress(t))

\* One call by each thread of the process, in flight together.
NextConc ==
    \E t \in Threads :
        \/ Scheduled(t) /\ calls[t] = 0
                        /\ \E p \in ConcPaths, f \in ConcFlags : Call(t, p, f)
        \/ Scheduled(t) /\ Validate(t)
        \/ Scheduled(t) /\ Scan(t)
        \/ Scheduled(t) /\ ScanChk(t)
        \/ Scheduled(t) /\ Fget(t)
        \/ Scheduled(t) /\ FgetChk(t)
        \/ Scheduled(t) /\ Publish(t)
        \/ Scheduled(t) /\ DeriveMode(t)
        \/ Scheduled(t) /\ ModeChk(t)
        \/ Scheduled(t) /\ OpenNamev(t)
        \/ Scheduled(t) /\ NamevChk(t)
        \/ Scheduled(t) /\ FailNull(t)
        \/ Scheduled(t) /\ FailVput(t)
        \/ Scheduled(t) /\ FailFput(t)
        \/ Scheduled(t) /\ DirChk(t)
        \/ Scheduled(t) /\ IsdirNull(t)
        \/ Scheduled(t) /\ IsdirVput(t)
        \/ Scheduled(t) /\ IsdirFput(t)
        \/ Scheduled(t) /\ Fill(t)
        \/ Scheduled(t) /\ Return(t)

SpecConc == Init /\ [][NextConc]_vars

(* ============================ properties ============================== *)
Returned(t) == pc[t] = "ret"
Failed(t) == Returned(t) /\ retval[t] < 0
HasFree(tbl) == \E i \in Fds : tbl[i] = NULL
Full(tbl) == \A i \in Fds : tbl[i] # NULL
\* fget was invoked and answered NULL.
AllocFailed(t) == cnt[t].fget > 0 /\ file[t] = NULL
BothWrBits(t) == BitAnd(oflags[t], O_WRONLY) # 0 /\ BitAnd(oflags[t], O_RDWR) # 0
WantsWrite(t) == BitAnd(oflags[t], O_WRONLY) # 0 \/ BitAnd(oflags[t], O_RDWR) # 0
WantsAppend(t) == BitAnd(oflags[t], O_APPEND) # 0

\* C1: at every failure return of do_open the descriptor table equals, entry
\* for entry, the table at the moment the call began.
C1_FailureRestoresTable ==
    \A t \in Threads : Failed(t) => p_files = pre[t].p_files

\* A failure return taken after the file was published: -EISDIR with the
\* file object released.
C1_Witness ==
    \E t \in Threads : /\ Failed(t) /\ retval[t] = -EISDIR /\ cnt[t].fput = 1
                       /\ \E i \in Fds : p_files[i] # NULL

\* C2: at every failure return the file object from fget was fput exactly
\* once (never when fget answered NULL), a vnode reference handed back by
\* open_namev was vput exactly once, and the file-object and vnode reference
\* counts equal those before the call.
C2_FailureReleasesRefs ==
    \A t \in Threads :
        Failed(t) =>
            /\ cnt[t].fput = (IF file[t] # NULL THEN 1 ELSE 0)
            /\ cnt[t].vput = (IF res_vnode[t] # NULL THEN 1 ELSE 0)
            /\ RefCounts(files) = pre[t].frefs
            /\ vn_refcount = pre[t].vrefs

\* A failed resolution that handed back a vnode reference with its status.
C2_Witness ==
    \E t \in Threads : /\ Failed(t) /\ res[t] < 0 /\ res_vnode[t] # NULL
                       /\ cnt[t].vput = 1 /\ cnt[t].fput = 1

\* The flags with exactly one base intent, optionally with O_APPEND.
SingleIntentFlags == {b + a : b \in {O_RDONLY, O_WRONLY, O_RDWR}, a \in {0, O_APPEND}}
ExpectedMode(f) ==
    (CASE f % 4 = O_RDONLY -> FMODE_READ
       [] f % 4 = O_WRONLY -> FMODE_WRITE
       [] f % 4 = O_RDWR -> FMODE_READ + FMODE_WRITE)
    + (IF f >= O_APPEND THEN FMODE_APPEND ELSE 0)

\* C3: with single-intent flags, an existing regular file, a free slot and a
\* successful allocation, do_open succeeds and the file at the returned
\* descriptor has exactly the requested mode (FMODE_APPEND iff O_APPEND),
\* f_pos 0 and the vnode the resolver returned.
C3_ModeMatchesRequest ==
    \A t \in Threads :
        ( /\ Returned(t)
          /\ filename[t] = "reg"
          /\ oflags[t] \in SingleIntentFlags
          /\ HasFree(pre[t].p_files)
          /\ ~AllocFailed(t) )
        => /\ retval[t] \in Fds
           /\ p_files[retval[t]] # NULL
           /\ p_files[retval[t]] = file[t]
           /\ files[file[t]].f_mode = ExpectedMode(oflags[t])
           /\ files[file[t]].f_pos = 0
           /\ res_vnode[t] = namespace["reg"]
           /\ files[file[t]].f_vnode = res_vnode[t]

\* A read-write append open of the regular file has returned its descriptor.
C3_Witness ==
    \E t \in Threads : /\ Returned(t) /\ filename[t] = "reg"
                       /\ oflags[t] = O_RDWR + O_APPEND /\ retval[t] \in Fds
                       /\ files[file[t]].f_mode = 7

\* C4: get_empty_fd returns the smallest index whose slot is null, returns
\* -EMFILE exactly when no slot is null, and leaves the table as it was.
C4_LowestFree ==
    \A t \in Threads :
        pc[t] = "scan_chk" =>
            /\ p_files = pre[t].p_files
            /\ \/ /\ fd[t] \in Fds
                  /\ p_files[fd[t]] = NULL
                  /\ \A i \in Fds : i < fd[t] => p_files[i] # NULL
               \/ /\ fd[t] = -EMFILE
                  /\ Full(p_files)

\* The scan passed an occupied slot 0 and chose slot 1 although slot 2 is
\* free as well.
C4_Witness ==
    \E t \in Threads : /\ pc[t] = "scan_chk" /\ fd[t] = 1
                       /\ p_files[0] # NULL /\ p_files[2] = NULL

\* C5: when oflags has both the O_WRONLY and the O_RDWR bit, do_open returns
\* -EINVAL and the table equals the table before the call.
C5_BothBitsInvalid ==
    \A t \in Threads :
        (Returned(t) /\ BothWrBits(t)) =>
            retval[t] = -EINVAL /\ p_files = pre[t].p_files

\* Both bits together with O_APPEND and O_CREAT, on a table with a free slot.
C5_Witness ==
    \E t \in Threads : /\ Returned(t)
                       /\ oflags[t] = O_WRONLY + O_RDWR + O_APPEND + O_CREAT
                       /\ HasFree(p_files) /\ retval[t] = -EINVAL

\* C6 as stated: on a full table every do_open call, whatever its flags,
\* returns -EMFILE and leaves the table unchanged.
C6_Original ==
    \A t \in Threads :
        (Returned(t) /\ Full(pre[t].p_files)) =>
            retval[t] = -EMFILE /\ p_files = pre[t].p_files

\* C6 amended: on a full table do_open leaves the table unchanged and
\* returns -EMFILE, except that flags with both O_WRONLY and O_RDWR set are
\* rejected first, with -EINVAL.
C6_FullTable ==
    \A t \in Threads :
        (Returned(t) /\ Full(pre[t].p_files)) =>
            /\ p_files = pre[t].p_files
            /\ retval[t] = (IF BothWrBits(t) THEN -EINVAL ELSE -EMFILE)

\* A call on a full table has returned -EMFILE.
C6_Witness ==
    \E t \in Threads : /\ Returned(t) /\ Full(pre[t].p_files)
                       /\ retval[t] = -EMFILE /\ cnt[t].fget = 0

OwnEISDIR(t) == Returned(t) /\ retval[t] = -EISDIR /\ cnt[t].namev = 1 /\ res[t] = 0

\* C8: do_open's directory check returns -EISDIR only when the node is a
\* directory and O_WRONLY or O_RDWR is set; an open of a directory without
\* write access is never refused by it.
C8_EISDIROnlyForWrite ==
    \A t \in Threads :
        OwnEISDIR(t) =>
            BitAnd(vn_mode(res_vnode[t]), S_IFDIR) # 0 /\ WantsWrite(t)

\* C9: when open_namev reports a status e < 0, do_open returns exactly e.
C9_ResolverErrorVerbatim ==
    \A t \in Threads :
        (Returned(t) /\ cnt[t].namev = 1 /\ res[t] < 0) => retval[t] = res[t]

\* The resolver failed with -ENXIO and do_open has returned.
C9_Witness ==
    \E t \in Threads : /\ Returned(t) /\ cnt[t].namev = 1
                       /\ res[t] = -ENXIO /\ retval[t] = -ENXIO

\* Thread t's call has written its file into p_files[fd] and has not taken
\* it out again.
HoldsSlot(t) ==
    \/ pc[t] \in {"derive", "mode_chk", "namev", "namev_chk", "dir_chk", "fill",
                  "fail_null", "isdir_null"}
    \/ Returned(t) /\ retval[t] >= 0

\* C10: two calls of the same process in flight together never obtain the
\* same index from get_empty_fd and write their files into the same entry.
C10_DistinctSlots ==
    \A t \in Threads : \A u \in Threads \ {t} :
        (HoldsSlot(t) /\ HoldsSlot(u)) => fd[t] # fd[u]

\* File object f is fully initialized: live, mode set, vnode present, offset 0.
FullyInitialized(f) ==
    /\ files[f].f_refcount > 0
    /\ files[f].f_mode # UNSET
    /\ files[f].f_vnode # NULL
    /\ files[f].f_pos = 0

\* Thread t's call is where another thread or teardown can look at the
\* table: blocked in a collaborator, or returned.
Observable(t) == pc[t] \in {"fget", "namev", "ret"}

\* C11: at every point where the table can be observed, the slot the call
\* allocated holds no entry or a fully-initialized file object; a published
\* file whose vnode reference is absent is never observable.
C11_NoHalfInitializedSlot ==
    \A t \in Threads :
        (Observable(t) /\ fd[t] \in Fds) =>
            \/ p_files[fd[t]] = NULL
            \/ FullyInitialized(p_files[fd[t]])

\* C12: while every call so far named an absent path without O_CREAT, each
\* such call fails, with -ENOENT whenever it gets as far as the resolver
\* (valid flags, a free slot, a file object), and at its return the table
\* and the file and vnode reference counts are those before the first call;
\* a call made after them still gets the lowest index free at the start.
C12_RepeatedFailureLeavesNoTrace ==
    \A t \in Threads :
        /\ (Returned(t) /\ hist.onlyAbsent /\ AbsentNoCreat(t)) =>
              /\ retval[t] < 0
              /\ (~BothWrBits(t) /\ HasFree(pre[t].p_files) /\ ~AllocFailed(t))
                     => retval[t] = -ENOENT
              /\ p_files = hist.init.p_files
              /\ RefCounts(files) = hist.init.frefs
              /\ vn_refcount = hist.init.vrefs
        /\ (pc[t] = "scan_chk" /\ hist.onlyAbsent /\ calls[t] >= 2) =>
              IF fd[t] \in Fds
              THEN /\ hist.init.p_files[fd[t]] = NULL
                   /\ \A i \in Fds : i < fd[t] => hist.init.p_files[i] # NULL
              ELSE Full(hist.init.p_files)

\* The last of MaxCalls opens of the absent path in a row has returned
\* -ENOENT.
C12_Witness ==
    \E t \in Threads : /\ Returned(t) /\ hist.onlyAbsent /\ AbsentNoCreat(t)
                       /\ calls[t] = MaxCalls /\ calls[t] >= 2
                       /\ retval[t] = -ENOENT /\ cnt[t].fput = 1

\* C13: do_open hands oflags to the resolver unchanged: an open with O_CREAT
\* of a path absent beforehand (valid flags, a free slot, a file object)
\* returns a descriptor in [0, NFILES), and resolving the same path
\* afterwards without O_CREAT finds the node the descriptor refers to.
C13_CreateThenResolve ==
    \A t \in Threads :
        ( /\ Returned(t)
          /\ filename[t] = "new"
          /\ pre[t].ns["new"] = NULL
          /\ BitAnd(oflags[t], O_CREAT) # 0
          /\ ~BothWrBits(t)
          /\ HasFree(pre[t].p_files)
          /\ ~AllocFailed(t) )
        => /\ retval[t] \in Fds
           /\ p_files[retval[t]] = file[t]
           /\ file[t] # NULL
           /\ namespace["new"] # NULL
           /\ files[file[t]].f_vnode = namespace["new"]
           /\ \A o \in open_namev("new", oflags[t] - O_CREAT, namespace) :
                  o.res = 0 /\ o.vnode = namespace["new"] /\ ~o.creates

\* A write-only creating open of the absent path has returned a descriptor.
C13_Witness ==
    \E t \in Threads : /\ Returned(t) /\ filename[t] = "new"
                       /\ pre[t].ns["new"] = NULL
                       /\ oflags[t] = O_WRONLY + O_CREAT
                       /\ retval[t] \in Fds /\ namespace["new"] = 3

\* C14: on each failure path after the publish, the slot is already null
\* when the file object is about to be released with fput; and in every
\* state, no non-null entry of the table refers to a file object whose
\* reference count is zero.
C14_NullBeforeRelease ==
    /\ \A t \in Threads :
          pc[t] \in {"fail_vput", "fail_fput", "isdir_vput", "isdir_fput"} =>
              /\ p_files[fd[t]] = NULL
              /\ files[file[t]].f_refcount > 0
    /\ \A i \in Fds : p_files[i] # NULL => files[p_files[i]].f_refcount > 0

\* The call is about to fput its file on the -EISDIR path, the slot cleared,
\* while another slot of the table is occupied.
C14_Witness ==
    \E t \in Threads : /\ pc[t] = "isdir_fput" /\ p_files[fd[t]] = NULL
                       /\ files[file[t]].f_refcount = 1
                       /\ \E i \in Fds : p_files[i] # NULL

\* C15: the mode == -1 branch of lines 128-133 is never taken: every oflags
\* that passes the validation of lines 87-89 gets a mode, so -EINVAL is
\* returned by that validation only, before anything is acquired.
C15_DefensiveBranchDead ==
    \A t \in Threads :
        /\ pc[t] = "mode_chk" => (mode[t] # -1 /\ ~BothWrBits(t))
        /\ (Returned(t) /\ retval[t] = -EINVAL) =>
              /\ BothWrBits(t)
              /\ cnt[t] = ZeroCnt
              /\ file[t] = NULL
              /\ p_files = pre[t].p_files

\* Mode derivation has run for a read-only request (no access bit set) and
\* the defensive test is about to be made.
C15_Witness ==
    \E t \in Threads : /\ pc[t] = "mode_chk" /\ oflags[t] = O_RDONLY + O_CREAT
                       /\ mode[t] = FMODE_READ

\* C16: the steps of do_open run in the order validation, scan, fget,
\* publish, mode derivation, resolution, directory check, finalize, and a
\* failed step ends the call: fget is not invoked by a call that returns
\* -EINVAL or -EMFILE, open_namev is not invoked by a call that returns
\* -EINVAL, -EMFILE or -ENOMEM, and each is invoked at most once per call.
C16_StepOrder ==
    \A t \in Threads :
        /\ cnt[t].fget <= 1 /\ cnt[t].namev <= 1
        /\ (Returned(t) /\ retval[t] \in {-EINVAL, -EMFILE}) =>
              cnt[t].fget = 0 /\ cnt[t].namev = 0
        /\ (Returned(t) /\ retval[t] = -ENOMEM) =>
              cnt[t].fget = 1 /\ cnt[t].namev = 0
        \* fget is entered with the flags validated and a slot found
        /\ pc[t] = "fget" =>
              /\ ~BothWrBits(t) /\ fd[t] \in Fds /\ cnt[t].fget = 0
              /\ p_files[fd[t]] = NULL
        \* the publish follows a successful fget
        /\ pc[t] = "publish" =>
              /\ cnt[t].fget = 1 /\ file[t] # NULL /\ mode[t] = UNSET
        \* the resolver is entered with the file published and its mode set
        /\ pc[t] = "namev" =>
              /\ cnt[t].fget = 1 /\ cnt[t].namev = 0
              /\ p_files[fd[t]] = file[t]
              /\ files[file[t]].f_mode = mode[t] /\ mode[t] # UNSET
        \* the directory check follows a successful resolution
        /\ pc[t] = "dir_chk" => cnt[t].namev = 1 /\ res[t] = 0
        \* finalize comes last: the vnode is not yet stored
        /\ pc[t] = "fill" =>
              /\ cnt[t].namev = 1 /\ res[t] = 0
              /\ files[file[t]].f_vnode = NULL

\* A call on a full table has returned -EMFILE without invoking a
\* collaborator.
C16_Witness ==
    \E t \in Threads : /\ Returned(t) /\ retval[t] = -EMFILE
                       /\ cnt[t] = ZeroCnt /\ ~BothWrBits(t)

\* C17: a successful do_open, run alone, changes exactly one table entry:
\* the descriptor returned is the lowest index free when the call began,
\* that entry was null and now refers to the file object the call acquired,
\* and every other entry is as before.
C17_OneEntryChanged ==
    \A t \in Threads :
        (Returned(t) /\ retval[t] >= 0) =>
            /\ retval[t] \in Fds
            /\ pre[t].p_files[retval[t]] = NULL
            /\ \A i \in Fds : i < retval[t] => pre[t].p_files[i] # NULL
            /\ p_files[retval[t]] # NULL
            /\ p_files[retval[t]] = file[t]
            /\ pre[t].frefs[file[t]] = 0
            /\ cnt[t].fget = 1
            /\ \A i \in Fds \ {retval[t]} : p_files[i] = pre[t].p_files[i]

\* A successful open has returned descriptor 1: slot 0 was occupied before
\* and slot 2 is still free.
C17_Witness ==
    \E t \in Threads : /\ Returned(t) /\ retval[t] = 1
                       /\ pre[t].p_files[0] # NULL /\ p_files[2] = NULL
                       /\ p_files[1] = file[t]

FreeCount(tbl) == Cardinality({i \in Fds : tbl[i] = NULL})
\* The call's flags are valid and its path resolves without a conflict: the
\* regular file, the directory read-only, or the file "new" existing or
\* to be created.
ValidResolvable(t) ==
    /\ ~BothWrBits(t)
    /\ \/ filename[t] = "reg"
       \/ filename[t] = "dir" /\ ~WantsWrite(t) /\ ~WantsAppend(t)
       \/ filename[t] = "new" /\ (BitAnd(oflags[t], O_CREAT) # 0 \/ pre[t].ns["new"] # NULL)

C19_Terminates ==
    \A t \in Threads :
        (pc[t] # "idle") ~>
            (Returned(t) /\ (retval[t] \in Fds \/ retval[t] < 0))

\* A call that went through both the allocator and the resolver has returned
\* a descriptor.
C19_Witness ==
    \E t \in Threads : /\ Returned(t)
                       /\ cnt[t].fget = 1 /\ cnt[t].namev = 1
                       /\ retval[t] \in Fds
====
